---- MODULE Spec2Model ----
(***************************************************************************)
(* State-variable shadowing detector (slither/detectors/shadowing/state.py) *)
(* StateShadowing.detect_shadowing and StateShadowing._detect, run over a   *)
(* bounded family of contract graphs.                                       *)
(***************************************************************************)
EXTENDS Integers, Sequences, FiniteSets, TLC

\* ---------------------------------------------------------------- bounds
\* Number of contracts of the compilation unit (self.contracts).
NumContracts == 3

\* Contract identities; a contract's name is its identity.
Contracts == 1..NumContracts

\* An owner reference that resolves to no contract of the graph.
Dangling == NumContracts + 1

\* The owner reference of a variable that has no owning contract (None).
NoContract == NumContracts + 2

\* ---------------------------------------------------------------- state
VARIABLES
    inheritance,   \* contract.inheritance: sequence of ancestor contracts
    functions,     \* contract.functions: sequence of is_implemented flags
    modifiers,     \* contract.modifiers: sequence of is_implemented flags
    variables,     \* contract.variables: sequence of Variable records
    pc,            \* "detect" before the call of _detect, "done" after it
    shadowing,     \* shadowing[c]: what detect_shadowing(c) returned in _detect
    results        \* the list _detect returned

vars == <<inheritance, functions, modifiers, variables, pc, shadowing, results>>

graph == <<inheritance, functions, modifiers, variables>>

\* ------------------------------------------------------- sequence helpers
RECURSIVE Flatten(_)
Flatten(ss) == IF ss = <<>> THEN <<>> ELSE Head(ss) \o Flatten(Tail(ss))

Range(s) == {s[k] : k \in 1..Len(s)}

RECURSIVE Dedup(_)
\* keeps the first occurrence of every element
Dedup(s) ==
    IF s = <<>> THEN <<>>
    ELSE LET init == Dedup(SubSeq(s, 1, Len(s) - 1))
             last == s[Len(s)]
         IN IF last \in Range(init) THEN init ELSE Append(init, last)

RECURSIVE DistinctSeqs(_, _)
\* the sequences of at most n pairwise distinct elements of S
DistinctSeqs(S, n) ==
    IF n = 0 THEN {<<>>}
    ELSE {<<>>} \cup UNION {{<<x>> \o s : s \in DistinctSeqs(S \ {x}, n - 1)} : x \in S}

\* ------------------------------------------------- the graph front end
\* Contract.inheritance: the ancestors of c, from the direct parents in
\* declared order, expanded depth-first, each ancestor kept where it is
\* first reached, c itself excluded.
RECURSIVE ancestors(_, _)
ancestors(parents, c) ==
    Dedup(Flatten([k \in 1..Len(parents[c]) |->
              <<parents[c][k]>> \o ancestors(parents, parents[c][k])]))

\* The Variable objects a contract declares: name, owning contract, source
\* location.  owner[c][k] is the owner reference of the k-th declaration.
declared_variables(declared, owner, c) ==
    [k \in 1..Len(declared[c]) |->
        [name |-> declared[c][k], contract |-> owner[c][k],
         source_mapping_str |-> <<c, k>>]]

\* Contract.variables: the variables inherited from the ancestors (the most
\* distant first), then the contract's own declarations.
contract_variables(inh, declared, owner, c) ==
    Flatten([k \in 1..Len(inh[c]) |->
                declared_variables(declared, owner, inh[c][Len(inh[c]) + 1 - k])])
    \o declared_variables(declared, owner, c)

\* ------------------------------------------------- StateShadowing
\* self.contracts, in input order (an order that is not the order of the
\* identities)
contracts == [k \in 1..NumContracts |-> (k % NumContracts) + 1]

\* The object graph the detector reads.
Graph ==
    [inheritance |-> inheritance, functions |-> functions,
     modifiers |-> modifiers, variables |-> variables]

\* variant: the father has a function or a modifier, implemented or not
any_is_declared(g, father) == Len(g.functions[father] \o g.modifiers[father]) > 0

\* any(f.is_implemented for f in father.functions + father.modifiers)
any_is_implemented(g, father) ==
    LET fs == g.functions[father] \o g.modifiers[father]
    IN \E k \in 1..Len(fs) : fs[k]

\* variant: every variable the father exposes, the inherited ones included
father_variables_unfiltered(g, father) == g.variables[father]

\* [v for v in father.variables if v.contract == father]
father_variables(g, father) ==
    SelectSeq(g.variables[father], LAMBDA v : v.contract = father)

\* variant: every variable the contract exposes
own_variables_unfiltered(g, contract) == g.variables[contract]

\* [v for v in contract.variables if v.contract == contract]
own_variables(g, contract) ==
    SelectSeq(g.variables[contract], LAMBDA v : v.contract = contract)

\* variant: the loop starts with the contract itself
fathers_with_self(g, contract) == <<contract>> \o g.inheritance[contract]

\* variant: the loop walks the inheritance list backwards
fathers_reversed(g, contract) ==
    [k \in 1..Len(g.inheritance[contract]) |->
        g.inheritance[contract][Len(g.inheritance[contract]) + 1 - k]]

\* for father in contract.inheritance
fathers(g, contract) == g.inheritance[contract]

\* variant: the loop stops at the first father without implemented code
RECURSIVE collect_until_dead(_, _)
collect_until_dead(g, fs) ==
    IF fs = <<>> \/ ~any_is_implemented(g, Head(fs)) THEN <<>>
    ELSE father_variables(g, Head(fs)) \o collect_until_dead(g, Tail(fs))

variables_fathers_until_dead(g, contract) ==
    collect_until_dead(g, fathers(g, contract))

\* variables_fathers after the first loop of detect_shadowing
variables_fathers(g, contract) ==
    LET fs == fathers(g, contract)
    IN Flatten([k \in 1..Len(fs) |->
                   IF any_is_implemented(g, fs[k])
                   THEN father_variables(g, fs[k]) ELSE <<>>])

\* variant: the names are compared without regard to case
Lower(name) == IF name = "Owner" THEN "owner" ELSE name

same_name_ignoring_case(v, var) == Lower(v.name) = Lower(var.name)

\* v.name == var.name
same_name(v, var) == v.name = var.name

\* shadow = [v for v in variables_fathers if v.name == var.name]
shadow_of(g, contract, var) ==
    SelectSeq(variables_fathers(g, contract), LAMBDA v : same_name(v, var))

\* variant: a list is appended for every own variable, `if shadow` left out
detect_shadowing_without_test(g, contract) ==
    LET own == own_variables(g, contract)
    IN [k \in 1..Len(own) |-> <<own[k]>> \o shadow_of(g, contract, own[k])]

\* detect_shadowing(contract): one list [var] + shadow for every own
\* variable whose shadow list is not empty
detect_shadowing(g, contract) ==
    LET own == own_variables(g, contract)
        all == [k \in 1..Len(own) |-> <<own[k]>> \o shadow_of(g, contract, own[k])]
    IN SelectSeq(all, LAMBDA all_variables : Len(all_variables) > 1)

\* info: the header of the shadowing variable, then one line for every
\* shadowed variable, each made of the owner's name, the variable's name and
\* its source location
info_of(all_variables) ==
    [k \in 1..Len(all_variables) |->
        <<all_variables[k].contract, all_variables[k].name,
          all_variables[k].source_mapping_str>>]

\* generate_json_result(info), then add_variables_to_json(all_variables, json)
json_of(all_variables) ==
    [info |-> info_of(all_variables), variables |-> all_variables]

\* variant: the diagnostics of one contract in reverse order
diagnostics_reversed(groups) ==
    [k \in 1..Len(groups) |-> json_of(groups[Len(groups) + 1 - k])]

\* what the body of `for c in self.contracts` appends to results
diagnostics_of(groups) == [k \in 1..Len(groups) |-> json_of(groups[k])]

\* ------------------------------------------------- inputs
\* functions and modifiers of a contract: an unimplemented function alone,
\* or an unimplemented function and an implemented modifier
FnShapes ==
    { [functions |-> <<FALSE>>, modifiers |-> <<>>],
      [functions |-> <<FALSE>>, modifiers |-> <<TRUE>>] }

\* the names a contract declares, in declaration order
DeclaredLists == { <<>>, <<"owner">>, <<"Owner", "owner">> }

RECURSIVE ParentMaps(_)
\* every contract inherits contracts declared before it only
ParentMaps(n) ==
    IF n = 0 THEN {<<>>}
    ELSE {Append(m, p) : m \in ParentMaps(n - 1),
                         p \in DistinctSeqs(1..(n - 1), n - 1)}

InheritanceMaps ==
    {[c \in Contracts |-> ancestors(p, c)] : p \in ParentMaps(NumContracts)}

\* every declaration is owned by the contract that declares it
WellOwned(declared) == [c \in Contracts |-> [k \in 1..Len(declared[c]) |-> c]]

Start ==
    /\ pc = "detect"
    /\ shadowing = [c \in Contracts |-> <<>>]
    /\ results = <<>>

Init ==
    /\ inheritance \in InheritanceMaps
    /\ \E shapes \in [Contracts -> FnShapes] :
          /\ functions = [c \in Contracts |-> shapes[c].functions]
          /\ modifiers = [c \in Contracts |-> shapes[c].modifiers]
    /\ \E declared \in [Contracts -> DeclaredLists] :
          variables = [c \in Contracts |->
              contract_variables(inheritance, declared, WellOwned(declared), c)]
    /\ Start

\* _detect: the whole loop over self.contracts and the return
Detect ==
    /\ pc = "detect"
    /\ shadowing' = [c \in Contracts |-> detect_shadowing(Graph, c)]
    /\ results' = Flatten([k \in 1..Len(contracts) |->
                      diagnostics_of(detect_shadowing(Graph, contracts[k]))])
    /\ pc' = "done"
    /\ UNCHANGED graph

Next == Detect

Spec == Init /\ [][Next]_vars

\* ------------------------------------------------- malformed graphs
MalformedLists == { <<"owner">>, <<"Owner", "owner">> }

Faults == {"dangling", "none", "self"}

\* the first declaration of contract t carries the owner reference ref
Corrupted(declared, t, ref) ==
    [c \in Contracts |->
        [k \in 1..Len(declared[c]) |-> IF c = t /\ k = 1 THEN ref ELSE c]]

OwnersUnder(fault, declared, t) ==
    CASE fault = "dangling" -> Corrupted(declared, t, Dangling)
      [] fault = "none" -> Corrupted(declared, t, NoContract)
      [] OTHER -> WellOwned(declared)

\* A graph with one fault in contract t: the owner reference of its first
\* declaration is dangling or missing, or t is listed among its own ancestors.
InitMalformed ==
    /\ \E inh \in InheritanceMaps, t \in Contracts, fault \in Faults,
          declared \in [Contracts -> MalformedLists] :
          /\ inheritance =
                 IF fault = "self" THEN [inh EXCEPT ![t] = Append(@, t)] ELSE inh
          /\ variables = [c \in Contracts |->
                 contract_variables(inh, declared, OwnersUnder(fault, declared, t), c)]
    /\ \E shapes \in [Contracts -> FnShapes] :
          /\ functions = [c \in Contracts |-> shapes[c].functions]
          /\ modifiers = [c \in Contracts |-> shapes[c].modifiers]
    /\ Start

SpecMalformed == InitMalformed /\ [][Next]_vars

\* ------------------------------------------------- vocabulary of the claims
Done == pc = "done"

\* the contract has a function or a modifier with an implemented body
Live(c) == TRUE \in Range(functions[c]) \cup Range(modifiers[c])

\* the contracts of c's inheritance list
Anc(c) == Range(inheritance[c])

\* the variables c exposes and owns
Declares(c) == {v \in Range(variables[c]) : v.contract = c}

\* the variable named n that x owns
Var(x, n) == CHOOSE v \in Declares(x) : v.name = n

\* the first position of x in s
Pos(s, x) == CHOOSE k \in 1..Len(s) : s[k] = x /\ \A j \in 1..(k - 1) : s[j] # x

Count(s, x) == Cardinality({k \in 1..Len(s) : s[k] = x})

\* the groups detect_shadowing returned for c
Groups(c) == Range(shadowing[c])

\* ------------------------------------------------- C1
\* C1 (dead-ancestor exclusion): an ancestor none of whose functions and
\* modifiers is implemented contributes no variable to any group returned for
\* a descendant, whatever the names.
C1_DeadAncestorExclusion ==
    Done =>
        \A c \in Contracts : \A f \in Anc(c) :
            ~Live(f) =>
                \A g \in Groups(c) : \A j \in 1..Len(g) : g[j].contract # f

\* a dead ancestor declares a name the descendant redeclares: no diagnostic
C1_Witness ==
    /\ Done
    /\ \E c \in Contracts : \E f \in Anc(c) :
          /\ ~Live(f)
          /\ \E v \in Declares(f) : \E w \in Declares(c) : v.name = w.name
          /\ shadowing[c] = <<>>

\* ------------------------------------------------- C2
\* C2 (diamond deduplication): every variable a live ancestor owns occurs
\* exactly once in variables_fathers, every entry of variables_fathers is
\* owned by a live ancestor, and no group lists an ancestor variable twice.
C2_DiamondDedup ==
    Done =>
        \A d \in Contracts :
            LET vf == variables_fathers(Graph, d)
            IN /\ \A a \in Anc(d) :
                      Live(a) => \A v \in Declares(a) : Count(vf, v) = 1
               /\ \A k \in 1..Len(vf) :
                      vf[k].contract \in Anc(d) /\ Live(vf[k].contract)
               /\ \A g \in Groups(d) :
                      \A i, j \in 2..Len(g) : i # j => g[i] # g[j]

\* ancestor a is reached from d directly and again through b, which exposes
\* a's variable as inherited; d redeclares nothing
C2_Witness ==
    /\ Done
    /\ \E d \in Contracts : \E a, b \in Anc(d) :
          /\ a \in Anc(b)
          /\ Pos(inheritance[d], a) < Pos(inheritance[d], b)
          /\ Live(a) /\ Live(b)
          /\ \E v \in Declares(a) :
                /\ v \in Range(variables[b])
                /\ Count(variables_fathers(Graph, d), v) = 1
          /\ Declares(d) = {}
          /\ shadowing[d] = <<>>

\* ------------------------------------------------- C3
\* a declares only n and has an implemented modifier; b inherits a only,
\* declares only n and is live; c inherits b and declares only n
ChainCase(a, b, c, n) ==
    /\ Anc(a) = {} /\ Anc(b) = {a} /\ Anc(c) = {a, b}
    /\ a # b /\ b # c /\ a # c
    /\ TRUE \in Range(modifiers[a])
    /\ Live(b)
    /\ \A x \in {a, b, c} : {v.name : v \in Declares(x)} = {n}

ChainNames == {"owner", "Owner"}

C4_OrderingStability ==
    Done =>
        /\ \A c \in Contracts : \A g \in Groups(c) :
              /\ g[1] \in Declares(c)
              /\ \A i, j \in 2..Len(g) :
                    i < j =>
                        /\ g[i].contract \in Anc(c) /\ g[j].contract \in Anc(c)
                        /\ Pos(inheritance[c], g[i].contract)
                               < Pos(inheritance[c], g[j].contract)
        /\ \A c \in Contracts : \A k1, k2 \in 1..Len(shadowing[c]) :
              k1 < k2 =>
                  Pos(variables[c], shadowing[c][k1][1])
                      < Pos(variables[c], shadowing[c][k2][1])
        /\ [i \in 1..Len(results) |-> results[i].variables]
               = Flatten([k \in 1..Len(contracts) |-> shadowing[contracts[k]]])
        /\ \A i \in 1..Len(results) :
              /\ Len(results[i].info) = Len(results[i].variables)
              /\ \A k \in 1..Len(results[i].info) :
                    results[i].info[k][2] = results[i].variables[k].name

\* one contract with two groups, one of them with two shadowed variables,
\* and a second contract with a diagnostic
C4_Witness ==
    /\ Done
    /\ \E c, c2 \in Contracts :
          /\ c # c2
          /\ Len(shadowing[c]) >= 2
          /\ \E g \in Groups(c) : Len(g) >= 3
          /\ shadowing[c2] # <<>>
          /\ Len(results) >= 3

\* ------------------------------------------------- C5
\* the variables of live ancestors of c whose name is exactly the name of v
Shadowed(c, v) ==
    {w \in UNION {Declares(f) : f \in {a \in Anc(c) : Live(a)}} : w.name = v.name}

\* C5 (exact detection): a variable v the contract owns heads a group iff a
\* live ancestor owns a variable with exactly the name of v; the group then
\* lists exactly those variables; nothing else heads a group.
C5_ExactDetection ==
    Done =>
        \A c \in Contracts :
            /\ \A g \in Groups(c) : g[1] \in Declares(c)
            /\ \A v \in Declares(c) :
                  LET hits == {k \in 1..Len(shadowing[c]) : shadowing[c][k][1] = v}
                  IN IF Shadowed(c, v) = {}
                     THEN hits = {}
                     ELSE /\ Cardinality(hits) = 1
                          /\ \A k \in hits :
                                /\ Range(Tail(shadowing[c][k])) = Shadowed(c, v)
                                /\ Len(shadowing[c][k]) = 1 + Cardinality(Shadowed(c, v))
            /\ (Declares(c) = {} \/ \A a \in Anc(c) : ~Live(a)) => shadowing[c] = <<>>

\* a live ancestor owns Owner and owner, the descendant owns owner only: the
\* group of owner does not list Owner
C5_Witness ==
    /\ Done
    /\ \E c \in Contracts : \E a \in Anc(c) :
          /\ Live(a)
          /\ \E w \in Declares(a) :
                /\ w.name = "Owner"
                /\ \A g \in Groups(c) : w \notin Range(g)
          /\ {v.name : v \in Declares(c)} = {"owner"}
          /\ Len(shadowing[c]) = 1

\* ------------------------------------------------- C6
\* C6 (no self-shadowing): no variable the contract owns is in the
\* variables_fathers built for it, nor among the shadowed entries of its groups.
C6_NoSelfShadowing ==
    Done =>
        \A c \in Contracts :
            /\ \A k \in 1..Len(variables_fathers(Graph, c)) :
                  variables_fathers(Graph, c)[k].contract # c
            /\ \A g \in Groups(c) : \A j \in 2..Len(g) : g[j].contract # c

\* a live contract with variables of its own and a diagnostic
C6_Witness ==
    /\ Done
    /\ \E c \in Contracts :
          /\ Live(c)
          /\ Cardinality(Declares(c)) = 2
          /\ Len(shadowing[c]) = 2

\* ------------------------------------------------- C7
\* the analysis of c meets a broken programmer invariant: c is listed among
\* its own ancestors, or a variable it reads has no owning contract
ViolatesInvariant(c) ==
    \/ c \in Anc(c)
    \/ \E x \in {c} \cup Anc(c) : \E v \in Range(variables[x]) : v.contract = NoContract

\* the diagnostics of results whose shadowing variable is owned by c
DiagnosticsFor(c) ==
    SelectSeq(results, LAMBDA json : json.variables[1].contract = c)

\* C7 (failure isolation): the analysis of a contract that violates a
\* programmer invariant is aborted, so no shadowing diagnostic is returned
\* for it, and every other contract still gets its diagnostics.
C7_FailureIsolation ==
    Done =>
        \A c \in Contracts :
            IF ViolatesInvariant(c)
            THEN DiagnosticsFor(c) = <<>>
            ELSE [i \in 1..Len(DiagnosticsFor(c)) |-> DiagnosticsFor(c)[i].variables]
                     = shadowing[c]

\* ------------------------------------------------- C8
\* the graph without the variables whose owner reference is dangling
WithoutDangling ==
    [Graph EXCEPT !.variables =
        [c \in Contracts |-> SelectSeq(variables[c], LAMBDA v : v.contract # Dangling)]]

\* C8 (skip and continue): a variable with a dangling owner reference is in
\* no group, and the groups returned are those of the graph without it.
C8_SkipDangling ==
    Done =>
        \A c \in Contracts :
            /\ \A g \in Groups(c) : \A j \in 1..Len(g) : g[j].contract # Dangling
            /\ shadowing[c] = detect_shadowing(WithoutDangling, c)

\* the contract exposes a declaration of its own with a dangling owner, named
\* as a variable of a live ancestor, and still gets a group for its other
\* variable
C8_Witness ==
    /\ Done
    /\ \E c \in Contracts : \E v \in Range(variables[c]) :
          /\ v.contract = Dangling
          /\ v.source_mapping_str[1] = c
          /\ \E a \in Anc(c) : Live(a) /\ \E w \in Declares(a) : w.name = v.name
          /\ Len(shadowing[c]) = 1

\* ------------------------------------------------- C9
\* C9 (group well-formedness): a group is a variable of the analysed contract
\* followed by at least one variable; each of those has the same name and is
\* owned by a live ancestor, and their owners are pairwise distinct.
C9_GroupWellFormed ==
    Done =>
        \A c \in Contracts : \A g \in Groups(c) :
            /\ Len(g) >= 2
            /\ g[1].contract = c
            /\ \A j \in 2..Len(g) :
                  /\ g[j].name = g[1].name
                  /\ g[j].contract \in Anc(c)
                  /\ Live(g[j].contract)
            /\ \A i, j \in 2..Len(g) : i # j => g[i].contract # g[j].contract

\* a group with two shadowed variables beside a variable of the same
\* contract that shadows nothing
C9_Witness ==
    /\ Done
    /\ \E c \in Contracts :
          /\ \E g \in Groups(c) : Len(g) = 3
          /\ Cardinality(Declares(c)) > Len(shadowing[c])

\* ------------------------------------------------- C10
\* the graph with the functions and modifiers of c replaced
WithShape(c, shape) ==
    [Graph EXCEPT !.functions[c] = shape.functions,
                  !.modifiers[c] = shape.modifiers]

\* C10 (liveness per ancestor): every same-named variable of a live ancestor
\* is in the group of the redeclaring variable, whatever lies between the
\* ancestor and the contract, and the functions and modifiers of the analysed
\* contract itself do not change what is returned for it.
C10_LivenessPerAncestor ==
    Done =>
        \A c \in Contracts :
            /\ \A a \in Anc(c) :
                  Live(a) =>
                      \A w \in Declares(a) : \A v \in Declares(c) :
                          w.name = v.name =>
                              \E g \in Groups(c) : g[1] = v /\ w \in Range(Tail(g))
            /\ \A shape \in FnShapes :
                  detect_shadowing(WithShape(c, shape), c) = shadowing[c]

\* c inherits b, b inherits a, b is dead, a is live: a's variable is reported
C10_Witness ==
    /\ Done
    /\ \E a, b, c \in Contracts :
          /\ inheritance[b] = <<a>> /\ inheritance[c] = <<b, a>>
          /\ Live(a) /\ ~Live(b)
          /\ \E w \in Declares(a) : \E x \in Declares(b) : \E v \in Declares(c) :
                /\ w.name = v.name /\ x.name = v.name
                /\ shadowing[c] = << <<v, w>> >>

====
